---- MODULE Spec2Model ----
(***************************************************************************)
(* Model of pino-bot (src/pino-bot/src/main.rs) and of the SortedVec it    *)
(* stores timestamps in (src/utils/src/lib.rs).                            *)
(*                                                                         *)
(* Two specifications share the module:                                    *)
(*   SpecVec  a single SortedVec driven by from_vec / rank / insert /      *)
(*            remove_le with keys drawn from 0..MaxKey;                     *)
(*   Spec     the bot: concurrent Reader::message handlers and the         *)
(*            spawned selection / clean-up loop of main, sharing the       *)
(*            RwLock-protected WordMap and the recent channel.             *)
(***************************************************************************)
EXTENDS Integers, Sequences, FiniteSets, TLC

(***************************************************************************)
(* Bounds                                                                  *)
(***************************************************************************)
\* largest key / element of the SortedVec specification
MaxKey == 3
\* longest vector handed to from_vec, and longest vector insert may build
MaxLen == 4

\* number of concurrently running Reader::message handlers
NumHandlers == 2
\* number of messages delivered in one behaviour
MaxEvents == 2
\* last instant of the clock
MaxTime == 1
\* longest message content, in whitespace separated words
MaxWords == 2
\* largest --max-age tried
MaxAge == 1
\* largest --max-boost tried
MaxBoost == 1

Keys == 0..MaxKey

\* Option::None
None == "None"

(***************************************************************************)
(* SortedVec<T>  (src/utils/src/lib.rs)                                    *)
(* A vector is a TLA+ sequence; Rust index i is TLA+ index i + 1.          *)
(***************************************************************************)

\* vec.sort() of from_vec: insertion of x into an already sorted sequence
RECURSIVE SortInsert(_, _)
SortInsert(s, x) ==
    IF s = <<>> THEN <<x>>
    ELSE IF x < Head(s) THEN <<x>> \o s
    ELSE <<Head(s)>> \o SortInsert(Tail(s), x)

\* vec.sort(): the ascending permutation of vec
RECURSIVE Sort(_)
Sort(v) ==
    IF v = <<>> THEN <<>>
    ELSE SortInsert(Sort(Tail(v)), Head(v))

\* SortedVec::from_vec
from_vec(v) == Sort(v)

\* SortedVec::new
new == <<>>

\* SortedVec::len
len(vec) == Len(vec)

\* the while loop of rank: returns the final value of mid
RECURSIVE RankLoop(_, _, _, _, _)
RankLoop(vec, key, l, r, mid) ==
    IF l < r
    THEN LET m == (l + r) \div 2 IN
         IF vec[m + 1] < key THEN RankLoop(vec, key, m + 1, r, m)
         ELSE IF vec[m + 1] > key THEN RankLoop(vec, key, l, m, m)
         ELSE m
    ELSE mid

\* self.vec[from..].iter().take_while(|num| num <= key).count()
RECURSIVE TakeWhileLe(_, _, _)
TakeWhileLe(vec, key, from) ==
    IF from < Len(vec) /\ vec[from + 1] <= key
    THEN 1 + TakeWhileLe(vec, key, from + 1)
    ELSE 0

\* a rank that forgets the forward scan over the run of elements <= key
rank_noscan(vec, key) ==
    IF vec = <<>> THEN 0
    ELSE LET mid == RankLoop(vec, key, 0, Len(vec) - 1, 0) IN
         mid + (IF vec[mid + 1] <= key THEN 1 ELSE 0)

\* SortedVec::rank
rank(vec, key) ==
    IF vec = <<>> THEN 0
    ELSE LET mid == RankLoop(vec, key, 0, Len(vec) - 1, 0) IN
         mid + TakeWhileLe(vec, key, mid)

\* an insert that always pushes at the back
insert_push(vec, key) == Append(vec, key)

\* SortedVec::insert
insert(vec, key) ==
    LET index == rank(vec, key) IN
    SubSeq(vec, 1, index) \o <<key>> \o SubSeq(vec, index + 1, Len(vec))

\* a remove_le that keeps the elements equal to key
\* a removal that stops after the first element it drops
remove_first_le(vec, key) ==
    IF \E i \in 1..Len(vec) : vec[i] <= key
    THEN LET i == CHOOSE j \in 1..Len(vec) :
                      vec[j] <= key /\ \A k \in 1..(j - 1) : vec[k] > key
         IN SubSeq(vec, 1, i - 1) \o SubSeq(vec, i + 1, Len(vec))
    ELSE vec

remove_lt(vec, key) == SelectSeq(vec, LAMBDA elem : elem >= key)

\* SortedVec::remove_le
remove_le(vec, key) == SelectSeq(vec, LAMBDA elem : elem > key)

\* Option<usize>: Some(i) is <<i>>, None is <<>>
Some(i) == <<i>>

\* a position that trusts rank without comparing the element found
position_rank(vec, key) ==
    LET pos == rank(vec, key)
    IN IF pos # 0 THEN Some(pos - 1) ELSE <<>>

\* SortedVec::position; self.vec[pos - 1] of the code is vec[pos] here, where
\* sequences start at 1
position(vec, key) ==
    LET pos == rank(vec, key)
    IN IF pos # 0 /\ vec[pos] = key THEN Some(pos - 1) ELSE <<>>

\* SortedVec::get_le
get_le(vec, key) == SubSeq(vec, 1, rank(vec, key))

(***************************************************************************)
(* Specification SpecVec: one SortedVec under arbitrary operations         *)
(***************************************************************************)
VARIABLES
    sv,         \* SortedVec::vec
    svOp,       \* the operation applied last
    svKey,      \* its key argument
    svRet,      \* what it returned, 0 when it returns nothing
    svPrev      \* history: the vector before it

vecVars == <<sv, svOp, svKey, svRet, svPrev>>

(***************************************************************************)
(* State of the bot                                                        *)
(***************************************************************************)
VARIABLES
    options,        \* Options::from_args()
    words,          \* the WordMap behind MessageMap
    words_lock,     \* who holds a guard of the WordMap RwLock
    dest_lock,      \* who holds a guard of the RecentChannel RwLock
    recent_channel, \* the Option<ChannelId> behind RecentChannel
    now,            \* the clock (Utc::now(), message timestamps)
    nEvents,        \* messages delivered so far
    hpc,            \* Reader::message: where each handler stands
    hmsg,           \* Reader::message: timestamp and channel_id of its msg
    hwords,         \* Reader::message: what is left of word_iterator
    pc,             \* spawned loop: where it stands
    maybe_word,     \* spawned loop: maybe_word
    locked_channel, \* spawned loop: locked_channel
    older_than,     \* spawned loop: older_than
    sel,            \* history: what the selection of this iteration saw
    iter,           \* history: what this iteration has done so far
    send_call,      \* history: arguments of the say() call of this iteration
    unseen,         \* history: recorded instances no selection has counted
    seen_now,       \* history: instances first counted by this selection
    lost,           \* history: this iteration removed an instance never counted
    pre_pass        \* history: the WordMap when the clean-up locked it

botVars ==
    <<options, words, words_lock, dest_lock, recent_channel, now, nEvents, hpc, hmsg,
      hwords, pc, maybe_word, locked_channel, older_than, sel, iter,
      send_call, unseen, seen_now, lost, pre_pass>>

(***************************************************************************)
(* State of specification SpecRec: the recording path on its own           *)
(***************************************************************************)
VARIABLES
    rm,         \* a WordMap
    rmRaw,      \* history: per raw word and instant, how often a message
                \* held it since the last clean-up that reached that instant
    rmOp        \* the operation applied last

recVars == <<rm, rmRaw, rmOp>>

vars == <<botVars, vecVars, recVars>>

\* every vector of length <= MaxLen over Keys
Inputs == UNION {[1..n -> Keys] : n \in 0..MaxLen}

VecInit ==
    /\ \E v \in Inputs : sv = from_vec(v)
    /\ svOp = "from_vec"
    /\ svKey = 0
    /\ svRet = 0
    /\ svPrev = <<>>

VecFromVec ==
    /\ \E v \in Inputs : sv' = from_vec(v)
    /\ svOp' = "from_vec"
    /\ svKey' = 0
    /\ svRet' = 0
    /\ svPrev' = sv
    /\ UNCHANGED <<botVars, recVars>>

VecRank ==
    /\ \E key \in Keys :
        /\ svRet' = rank(sv, key)
        /\ svKey' = key
        /\ svOp' = "rank"
        /\ sv' = sv
    /\ svPrev' = sv
    /\ UNCHANGED <<botVars, recVars>>

VecPosition ==
    /\ \E key \in Keys :
        /\ svRet' = position(sv, key)
        /\ svKey' = key
        /\ svOp' = "position"
        /\ sv' = sv
    /\ svPrev' = sv
    /\ UNCHANGED <<botVars, recVars>>

VecGetLe ==
    /\ \E key \in Keys :
        /\ svRet' = get_le(sv, key)
        /\ svKey' = key
        /\ svOp' = "get_le"
        /\ sv' = sv
    /\ svPrev' = sv
    /\ UNCHANGED <<botVars, recVars>>

VecInsert ==
    /\ len(sv) < MaxLen
    /\ \E key \in Keys :
        /\ sv' = insert(sv, key)
        /\ svKey' = key
        /\ svOp' = "insert"
        /\ svRet' = 0
    /\ svPrev' = sv
    /\ UNCHANGED <<botVars, recVars>>

VecRemoveLe ==
    /\ \E key \in Keys :
        /\ sv' = remove_le(sv, key)
        /\ svKey' = key
        /\ svOp' = "remove_le"
        /\ svRet' = 0
    /\ svPrev' = sv
    /\ UNCHANGED <<botVars, recVars>>

VecNext ==
    \/ VecFromVec
    \/ VecRank
    \/ VecPosition
    \/ VecGetLe
    \/ VecInsert
    \/ VecRemoveLe


\* number of stored elements <= key
CountLe(vec, key) == Cardinality({i \in 1..Len(vec) : vec[i] <= key})

IsSorted(vec) == \A i \in 1..(Len(vec) - 1) : vec[i] <= vec[i + 1]

\* C1: whenever rank(key) has just been applied to a set built by from_vec,
\* insert and remove_le, its result is the number of stored elements <= key.
RankCountsLe == svOp = "rank" => svRet = CountLe(sv, svKey)

\* rank was asked for a key that occurs more than once, with smaller and
\* larger elements around the run
RankOnDuplicates ==
    /\ svOp = "rank"
    /\ Cardinality({i \in 1..Len(sv) : sv[i] = svKey}) >= 2
    /\ \E i \in 1..Len(sv) : sv[i] < svKey
    /\ \E i \in 1..Len(sv) : sv[i] > svKey
    /\ svRet = CountLe(sv, svKey)

\* C2: the vector is sorted non-decreasing after from_vec on any input and
\* after every insert and remove_le.
SortedAlways == IsSorted(sv)

\* a key was inserted below the current maximum into a set holding duplicates
InsertedOutOfOrder ==
    /\ svOp = "insert"
    /\ \E i \in 1..Len(sv) : sv[i] > svKey
    /\ Cardinality({i \in 1..Len(sv) : sv[i] = svKey}) >= 2
    /\ Len(sv) >= 3

(***************************************************************************)
(* pino-bot  (src/pino-bot/src/main.rs)                                    *)
(***************************************************************************)
Handlers == 1..NumHandlers
Times == 0..MaxTime
Channels == {"c1", "c2"}

\* words a message may be made of
RawWords == {"Ciao", "ciao", "pino", "p1no"}

\* regex.is_match(word) for the default --word-regex: letters and ' only
is_match(word) == word \in {"Ciao", "ciao", "pino"}

\* a to_lowercase that leaves every word as it is
to_lowercase_id(word) == word

\* str::to_lowercase
to_lowercase(word) == IF word = "Ciao" THEN "ciao" ELSE word

\* the keys the WordMap can hold
Tokens == {to_lowercase(w) : w \in {x \in RawWords : is_match(x)}}

\* msg.content.split_whitespace(): every content of at most MaxWords words
Contents == UNION {[1..n -> RawWords] : n \in 0..MaxWords}

\* word_iterator of Reader::message: filter by the regex, then lower-case
RECURSIVE word_iterator(_)
word_iterator(content) ==
    IF content = <<>> THEN <<>>
    ELSE IF is_match(Head(content))
         THEN <<to_lowercase(Head(content))>> \o word_iterator(Tail(content))
         ELSE word_iterator(Tail(content))

\* the command lines tried: struct Options without token and word_regex
OptionsSet ==
    [default_word : {None, "boh"},
     max_age : 0..MaxAge,
     max_boost : 0..MaxBoost,
     interval : {[low |-> 1, high |-> 2]}]
    \cup
    [default_word : {None},
     max_age : {MaxAge},
     max_boost : {0},
     interval : {[low |-> 2, high |-> 1]}]

\* a record that overwrites the history of a word already present
record_overwrite(map, word, time) ==
    [w \in DOMAIN map \cup {word} |->
        IF w = word THEN from_vec(<<time>>) ELSE map[w]]

\* body of the for loop of Reader::message
record(map, word, time) ==
    IF word \in DOMAIN map
    THEN [map EXCEPT ![word] = insert(map[word], time)]
    ELSE [w \in DOMAIN map \cup {word} |->
            IF w = word THEN from_vec(<<time>>) ELSE map[w]]

\* for val in words.values_mut() { val.remove_le(&older_than) }
evict(map, cutoff) == [w \in DOMAIN map |-> remove_le(map[w], cutoff)]

\* a retain that keeps every entry
retain_all(map) == map

\* words.retain(|_k, vec| vec.len() != 0)
retain_nonempty(map) ==
    [w \in {x \in DOMAIN map : len(map[x]) # 0} |-> map[w]]

\* the orders in which HashMap::iter may visit the keys S
Orders(S) ==
    {o \in [1..Cardinality(S) -> S] : \A i, j \in DOMAIN o : o[i] = o[j] => i = j}

\* Iterator::max_by_key over the visiting order: the last maximum wins
RECURSIVE max_fold(_, _, _)
max_fold(order, key, best) ==
    IF order = <<>> THEN best
    ELSE max_fold(Tail(order), key,
                  IF key[best] > key[Head(order)] THEN best ELSE Head(order))

\* a max_by_key that returns the entry visited first
max_by_key_first(order, key) == IF order = <<>> THEN None ELSE Head(order)

max_by_key(order, key) ==
    IF order = <<>> THEN None ELSE max_fold(Tail(order), key, Head(order))

\* where word stands in the visiting order
IndexIn(order, word) == CHOOSE i \in DOMAIN order : order[i] = word

\* a key closure that draws one boost for the whole selection
keyed_single_draw(order, lens, draws) ==
    [key |-> [w \in DOMAIN lens |-> lens[w] + draws[1]],
     boosts |-> [w \in DOMAIN lens |-> draws[1]],
     calls |-> IF order = <<>> THEN 0 ELSE 1]

\* the closure |(_word, instances)| instances.len() + boost(), which
\* max_by_key calls once for each entry it visits: the i-th visited entry
\* gets the i-th draw of the generator
keyed(order, lens, draws) ==
    [key |-> [w \in DOMAIN lens |-> lens[w] + draws[IndexIn(order, w)]],
     boosts |-> [w \in DOMAIN lens |-> draws[IndexIn(order, w)]],
     calls |-> Len(order)]

\* an or that prefers the default word whenever one is configured
or_prefer_default(maybe, default) == IF default # None THEN default ELSE maybe

\* Option::or
or(maybe, default) == IF maybe # None THEN maybe ELSE default

(***************************************************************************)
(* Initial state of the bot                                                *)
(***************************************************************************)
NoMsg == [timestamp |-> 0, channel_id |-> None]
Unlocked == <<>>
ByHandler(h) == <<"message", h>>
ByLoop == <<"loop">>
ByLoopRead == <<"loop", "read">>
NoCall == [text |-> None, channel |-> None]
NoSel == [lens |-> <<>>, boosts |-> <<>>, draws |-> <<>>, calls |-> 0]
NoIter == [selected |-> FALSE, counted |-> 0, sends |-> 0, failed |-> FALSE,
           evictions |-> 0, pruned |-> 0]
NoneUnseen == [w \in Tokens |-> [t \in Times |-> 0]]
NoneSeen == [w \in Tokens |-> 0]
EmptyMap == <<>>

BotInit ==
    /\ options \in OptionsSet
    /\ words = EmptyMap
    /\ words_lock = Unlocked
    /\ dest_lock = Unlocked
    /\ recent_channel = None
    /\ now = 0
    /\ nEvents = 0
    /\ hpc = [h \in Handlers |-> "idle"]
    /\ hmsg = [h \in Handlers |-> NoMsg]
    /\ hwords = [h \in Handlers |-> <<>>]
    /\ pc = "loop"
    /\ maybe_word = None
    /\ locked_channel = None
    /\ older_than = 0
    /\ sel = NoSel
    /\ iter = NoIter
    /\ send_call = NoCall
    /\ unseen = NoneUnseen
    /\ seen_now = NoneSeen
    /\ lost = FALSE
    /\ pre_pass = EmptyMap

handlerVars == <<hpc, hmsg, hwords>>
cycleVars == <<pc, maybe_word, locked_channel, older_than, sel, iter, send_call,
               seen_now, pre_pass>>

\* the clock advances
Tick ==
    /\ now < MaxTime
    /\ now' = now + 1
    /\ UNCHANGED <<vecVars, recVars, dest_lock, options, words, words_lock, recent_channel, nEvents,
                   handlerVars, cycleVars, unseen, lost>>

(***************************************************************************)
(* Reader::message                                                         *)
(***************************************************************************)
\* a message of the bot itself: "do nothing if we sent the message"
DeliverOwn(h) ==
    /\ hpc[h] = "idle"
    /\ nEvents < MaxEvents
    /\ nEvents' = nEvents + 1
    /\ UNCHANGED <<vecVars, recVars, dest_lock, options, words, words_lock, recent_channel, now,
                   handlerVars, cycleVars, unseen, lost>>

\* a message of somebody else, stamped with the current time, reaches a
\* handler, which builds word_iterator over its content
Deliver(h) ==
    /\ hpc[h] = "idle"
    /\ nEvents < MaxEvents
    /\ \E content \in Contents, channel \in Channels :
          /\ hmsg' = [hmsg EXCEPT ![h] = [timestamp |-> now,
                                          channel_id |-> channel]]
          /\ hwords' = [hwords EXCEPT ![h] = word_iterator(content)]
    /\ hpc' = [hpc EXCEPT ![h] = "channel"]
    /\ nEvents' = nEvents + 1
    /\ UNCHANGED <<vecVars, recVars, dest_lock, options, words, words_lock, recent_channel, now,
                   cycleVars, unseen, lost>>

\* a handler that remembers the channel only of messages holding a word
SetChannel_ifwords(h) ==
    /\ hpc[h] = "channel"
    /\ recent_channel' = IF hwords[h] # <<>> THEN hmsg[h].channel_id
                         ELSE recent_channel
    /\ hmsg' = [hmsg EXCEPT ![h].channel_id = None]
    /\ hpc' = [hpc EXCEPT ![h] = "lock"]
    /\ UNCHANGED <<vecVars, recVars, dest_lock, options, words, words_lock, now, nEvents, hwords,
                   cycleVars, unseen, lost>>

\* "Set most current channel"
SetChannel(h) ==
    /\ hpc[h] = "channel"
    /\ recent_channel' = hmsg[h].channel_id
    /\ hmsg' = [hmsg EXCEPT ![h].channel_id = None]
    /\ hpc' = [hpc EXCEPT ![h] = "lock"]
    /\ UNCHANGED <<vecVars, recVars, dest_lock, options, words, words_lock, now, nEvents, hwords,
                   cycleVars, unseen, lost>>

\* the for loop of Reader::message over what is left of word_iterator
RECURSIVE record_all(_, _, _)
record_all(map, ws, time) ==
    IF ws = <<>> THEN map
    ELSE record_all(record(map, Head(ws), time), Tail(ws), time)

\* how often word occurs in ws
RECURSIVE Occurrences(_, _)
Occurrences(ws, word) ==
    IF ws = <<>> THEN 0
    ELSE (IF Head(ws) = word THEN 1 ELSE 0) + Occurrences(Tail(ws), word)

\* message_map_lock.write(), the for loop, and the drop of the guard when
\* message returns: nothing else can touch the WordMap in between
Record(h) ==
    /\ hpc[h] = "lock"
    /\ words_lock = Unlocked
    /\ LET time == hmsg[h].timestamp IN
          /\ words' = record_all(words, hwords[h], time)
          /\ unseen' = [w \in Tokens |->
                          [unseen[w] EXCEPT ![time] = @ + Occurrences(hwords[h], w)]]
    /\ hpc' = [hpc EXCEPT ![h] = "idle"]
    /\ hmsg' = [hmsg EXCEPT ![h] = NoMsg]
    /\ hwords' = [hwords EXCEPT ![h] = <<>>]
    /\ UNCHANGED <<vecVars, recVars, dest_lock, options, words_lock, recent_channel, now, nEvents,
                   cycleVars, lost>>

(***************************************************************************)
(* The loop spawned by main                                                *)
(***************************************************************************)
\* sum of f over the instants of Times
RECURSIVE SumUpTo(_, _)
SumUpTo(f, t) == IF t < 0 THEN 0 ELSE f[t] + SumUpTo(f, t - 1)
Total(f) == SumUpTo(f, MaxTime)

\* sum of f over the set S
RECURSIVE SumOver(_, _)
SumOver(f, S) ==
    IF S = {} THEN 0
    ELSE LET x == CHOOSE y \in S : TRUE IN f[x] + SumOver(f, S \ {x})

\* rng.gen_range(interval_low..=interval_high): panics on an empty range,
\* which ends the spawned task
LoopTop ==
    /\ pc = "loop"
    /\ IF \E time \in options.interval.low..options.interval.high : TRUE
       THEN pc' = "sleep"
       ELSE pc' = "panicked"
    /\ sel' = NoSel
    /\ iter' = NoIter
    /\ send_call' = NoCall
    /\ seen_now' = NoneSeen
    /\ pre_pass' = EmptyMap
    /\ lost' = FALSE
    /\ UNCHANGED <<vecVars, recVars, dest_lock, options, words, words_lock, recent_channel, now, nEvents,
                   handlerVars, maybe_word, locked_channel, older_than,
                   unseen>>

\* delay_for(..).await returns
Wake ==
    /\ pc = "sleep"
    /\ pc' = "select"
    /\ UNCHANGED <<vecVars, recVars, dest_lock, options, words, words_lock, recent_channel, now, nEvents,
                   handlerVars, maybe_word, locked_channel, older_than, sel,
                   iter, send_call, seen_now, pre_pass, unseen, lost>>

\* the block computing maybe_word under the read guard: HashMap::iter visits
\* the keys in some order, boost() is drawn once per visited entry
Select ==
    /\ pc = "select"
    /\ words_lock = Unlocked
    /\ \E order \in Orders(DOMAIN words),
          draws \in [1..Cardinality(DOMAIN words) -> 0..options.max_boost] :
          LET lens == [w \in DOMAIN words |-> len(words[w])]
              k == keyed(order, lens, draws)
          IN
          /\ maybe_word' = or(max_by_key(order, k.key), options.default_word)
          /\ sel' = [lens |-> lens, boosts |-> k.boosts, draws |-> draws,
                     calls |-> k.calls]
    /\ seen_now' = [w \in Tokens |-> Total(unseen[w])]
    /\ iter' = [iter EXCEPT !.selected = TRUE,
                            !.counted = SumOver(seen_now', Tokens)]
    /\ unseen' = NoneUnseen
    /\ pc' = "emit"
    /\ UNCHANGED <<vecVars, recVars, dest_lock, options, words, words_lock, recent_channel, now, nEvents,
                   handlerVars, locked_channel, older_than, send_call,
                   pre_pass, lost>>

\* a loop without the "if let Some(word)" test: an empty text is sent
EmitNone_say ==
    /\ pc = "emit"
    /\ maybe_word = None
    /\ recent_channel # None
    /\ locked_channel' = recent_channel
    /\ send_call' = [text |-> "", channel |-> recent_channel]
    /\ iter' = [iter EXCEPT !.sends = @ + 1]
    /\ pc' = "send"
    /\ sel' = NoSel
    /\ seen_now' = NoneSeen
    /\ UNCHANGED <<vecVars, recVars, dest_lock, options, words, words_lock, recent_channel, now, nEvents,
                   handlerVars, maybe_word, older_than, pre_pass, unseen, lost>>

\* "if let Some(word) = maybe_word" fails: the body, clean-up included, is
\* skipped and the loop starts over
EmitNone ==
    /\ pc = "emit"
    /\ maybe_word = None
    /\ pc' = "loop"
    /\ sel' = NoSel
    /\ seen_now' = NoneSeen
    /\ UNCHANGED <<vecVars, recVars, dest_lock, options, words, words_lock, recent_channel, now, nEvents,
                   handlerVars, maybe_word, locked_channel, older_than,
                   iter, send_call, pre_pass, unseen, lost>>

\* a word and a channel: channel.say(http, message) is called
EmitSay ==
    /\ pc = "emit"
    /\ maybe_word # None
    /\ recent_channel # None
    /\ locked_channel' = recent_channel
    /\ send_call' = [text |-> maybe_word, channel |-> recent_channel]
    /\ iter' = [iter EXCEPT !.sends = @ + 1]
    /\ pc' = "send"
    /\ sel' = NoSel
    /\ seen_now' = NoneSeen
    /\ UNCHANGED <<vecVars, recVars, dest_lock, options, words, words_lock, recent_channel, now, nEvents,
                   handlerVars, maybe_word, older_than, pre_pass, unseen, lost>>

\* a word but "Most recent channel is None"
EmitNoChannel ==
    /\ pc = "emit"
    /\ maybe_word # None
    /\ recent_channel = None
    /\ locked_channel' = None
    /\ pc' = "cleanup"
    /\ sel' = NoSel
    /\ seen_now' = NoneSeen
    /\ UNCHANGED <<vecVars, recVars, dest_lock, options, words, words_lock, recent_channel, now, nEvents,
                   handlerVars, maybe_word, older_than, iter, send_call,
                   pre_pass, unseen, lost>>

\* a say that gives up the clean-up when the send failed
SayReturns_abort ==
    /\ pc = "send"
    /\ \E ok \in BOOLEAN :
          /\ iter' = [iter EXCEPT !.failed = ~ok]
          /\ pc' = IF ok THEN "cleanup" ELSE "loop"
    /\ send_call' = NoCall
    /\ UNCHANGED <<vecVars, recVars, dest_lock, options, words, words_lock, recent_channel, now, nEvents,
                   handlerVars, maybe_word, locked_channel, older_than, sel,
                   seen_now, pre_pass, unseen, lost>>

\* say(..).await returns Ok or Err; either is only printed
SayReturns ==
    /\ pc = "send"
    /\ \E ok \in BOOLEAN : iter' = [iter EXCEPT !.failed = ~ok]
    /\ send_call' = NoCall
    /\ pc' = "cleanup"
    /\ UNCHANGED <<vecVars, recVars, dest_lock, options, words, words_lock, recent_channel, now, nEvents,
                   handlerVars, maybe_word, locked_channel, older_than, sel,
                   seen_now, pre_pass, unseen, lost>>

\* older_than = Utc::now() - max_age; word and locked_channel are not read
\* from here on
Cutoff ==
    /\ pc = "cleanup"
    /\ older_than' = now - options.max_age
    /\ maybe_word' = None
    /\ locked_channel' = None
    /\ pc' = "lockw"
    /\ UNCHANGED <<vecVars, recVars, dest_lock, options, words, words_lock, recent_channel, now, nEvents,
                   handlerVars, sel, iter, send_call, seen_now, pre_pass,
                   unseen, lost>>

\* the write guard of the clean-up is taken
LockWords ==
    /\ pc = "lockw"
    /\ words_lock = Unlocked
    /\ words_lock' = ByLoop
    /\ pre_pass' = words
    /\ pc' = "evict"
    /\ UNCHANGED <<vecVars, recVars, dest_lock, options, words, recent_channel, now, nEvents, handlerVars,
                   maybe_word, locked_channel, older_than, sel, iter,
                   send_call, seen_now, unseen, lost>>

\* "Remove words older than older_than"
Evict ==
    /\ pc = "evict"
    /\ words' = evict(words, older_than)
    /\ lost' = \E w \in Tokens, t \in Times :
                    t <= older_than /\ unseen[w][t] > 0
    /\ unseen' = [w \in Tokens |-> [t \in Times |->
                    IF t <= older_than THEN 0 ELSE unseen[w][t]]]
    /\ pc' = "retain"
    /\ UNCHANGED <<vecVars, recVars, dest_lock, options, words_lock, recent_channel, now, nEvents,
                   handlerVars, maybe_word, locked_channel, older_than, sel,
                   iter, send_call, seen_now, pre_pass>>

\* "Remove entries with empty vectors to save space"
Retain ==
    /\ pc = "retain"
    /\ words' = retain_nonempty(words)
    /\ iter' = [iter EXCEPT !.evictions = @ + 1,
                            !.pruned = Cardinality(DOMAIN words \ DOMAIN words')]
    /\ pc' = "unlock"
    /\ UNCHANGED <<vecVars, recVars, dest_lock, options, words_lock, recent_channel, now, nEvents,
                   handlerVars, maybe_word, locked_channel, older_than, sel,
                   send_call, seen_now, pre_pass, unseen, lost>>

\* the write guard and the locals are dropped at the end of the if body
UnlockWords ==
    /\ pc = "unlock"
    /\ words_lock' = Unlocked
    /\ pre_pass' = EmptyMap
    /\ older_than' = 0
    /\ pc' = "loop"
    /\ UNCHANGED <<vecVars, recVars, dest_lock, options, words, recent_channel, now, nEvents, handlerVars,
                   maybe_word, locked_channel, sel, iter, send_call, seen_now,
                   unseen, lost>>

HandlerNext ==
    \E h \in Handlers :
        \/ DeliverOwn(h)
        \/ Deliver(h)
        \/ SetChannel(h)
        \/ Record(h)

CycleNext ==
    \/ LoopTop
    \/ Wake
    \/ Select
    \/ EmitNone
    \/ EmitSay
    \/ EmitNoChannel
    \/ SayReturns
    \/ Cutoff
    \/ LockWords
    \/ Evict
    \/ Retain
    \/ UnlockWords

\* in SpecVec the bot stands still, in Spec the lone SortedVec does
VecIdle ==
    /\ sv = new
    /\ svOp = "new"
    /\ svKey = 0
    /\ svRet = 0
    /\ svPrev = <<>>

\* in Spec and SpecVec the lone WordMap of SpecRec stands still
RecIdle ==
    /\ rm = EmptyMap
    /\ rmRaw = [r \in RawWords |-> [t \in Times |-> 0]]
    /\ rmOp = "new"

Init == BotInit /\ VecIdle /\ RecIdle

Next == Tick \/ HandlerNext \/ CycleNext

Spec == Init /\ [][Next]_vars

\* the bot before its first step, under one command line
BotIdle ==
    /\ BotInit
    /\ options = [default_word |-> None, max_age |-> 0, max_boost |-> 0,
                  interval |-> [low |-> 1, high |-> 2]]

InitVec == VecInit /\ BotIdle /\ RecIdle

SpecVec == InitVec /\ [][VecNext]_vars


(***************************************************************************)
(* Properties of the bot                                                   *)
(***************************************************************************)
\* how often t occurs in vec
CountEq(vec, t) == Cardinality({i \in 1..Len(vec) : vec[i] = t})

\* the clean-up has run and still holds the write guard
PassDone == pc = "unlock"

\* C3: when a clean-up pass with cutoff older_than is done (evict, then
\* retain), the WordMap holds exactly the timestamps it held before the pass
\* that are > older_than, and exactly the words that had such a timestamp.
EvictionPassExact ==
    PassDone =>
        /\ DOMAIN words =
             {w \in DOMAIN pre_pass :
                 \E i \in 1..Len(pre_pass[w]) : pre_pass[w][i] > older_than}
        /\ \A w \in DOMAIN words : \A t \in Times :
             CountEq(words[w], t) =
                 IF t > older_than THEN CountEq(pre_pass[w], t) ELSE 0

\* a pass met a timestamp equal to the cutoff and one just above it: the
\* first is gone with its word, the second is still there
EvictionPassAtBoundary ==
    /\ PassDone
    /\ \E w \in DOMAIN pre_pass \ DOMAIN words :
          \E i \in 1..Len(pre_pass[w]) : pre_pass[w][i] = older_than
    /\ \E w \in DOMAIN words :
          \E i \in 1..Len(words[w]) : words[w][i] = older_than + 1

\* C4: whenever nobody holds the write guard of the WordMap, every entry has
\* a non-empty vector.
NoEmptyEntryUnlocked ==
    words_lock = Unlocked => \A w \in DOMAIN words : len(words[w]) # 0

\* a pass has emptied and pruned an entry, kept another and dropped the guard
PrunedAndUnlocked ==
    /\ words_lock = Unlocked
    /\ iter.pruned > 0
    /\ words # EmptyMap

\* an iteration of the loop has come to its end
IterationOver == pc = "loop" /\ iter.selected

\* C5: every iteration of the loop runs the clean-up (evict and retain)
\* exactly once, whatever selection and emission gave.
EvictsEveryIteration == IterationOver => iter.evictions = 1

\* C6: an instance recorded before the selection of an iteration took the
\* lock is counted by that selection (its word is a candidate whose length
\* includes it, so a word is selected), and the iteration runs its clean-up,
\* which leaves nothing <= older_than.
ReflectedInCycle ==
    /\ pc = "emit" =>
          \A w \in Tokens :
              seen_now[w] > 0 =>
                  /\ w \in DOMAIN sel.lens
                  /\ sel.lens[w] >= seen_now[w]
                  /\ maybe_word # None
    /\ (IterationOver /\ iter.counted > 0) => iter.evictions = 1
    /\ PassDone =>
          \A w \in DOMAIN words : \A i \in 1..Len(words[w]) :
              words[w][i] > older_than

\* a selection counts two instances of one word for the first time
TwoFreshInstancesSelected ==
    /\ pc = "emit"
    /\ \E w \in Tokens : seen_now[w] >= 2 /\ sel.lens[w] >= 2

\* C7: no recorded instance is removed by a clean-up before some selection
\* has counted it.
NeverLost == ~lost

\* what the step leaving "emit" must do about say()
EmitStep ==
    /\ (pc = "emit" /\ pc' # "emit") =>
          IF maybe_word # None /\ recent_channel # None
          THEN /\ iter'.sends = iter.sends + 1
               /\ send_call' = [text |-> maybe_word, channel |-> recent_channel]
          ELSE /\ iter'.sends = iter.sends
               /\ send_call' = NoCall
    /\ pc # "emit" => iter'.sends <= iter.sends

\* C8: an iteration calls say() at most once; the step that ends the
\* emission calls it exactly when a word was selected and the recent channel
\* is set, with that word and that channel, and no other step calls it.
EmissionRule == [](iter.sends <= 1) /\ [][EmitStep]_vars

\* say() is being called with a word of the WordMap
SayInFlight ==
    /\ pc = "send"
    /\ iter.sends = 1
    /\ send_call.text \in Tokens
    /\ send_call.channel \in Channels

\* while say() is awaited the loop does not move, and when say() returns
\* the loop goes on to the clean-up without having touched the WordMap
SayStep == pc = "send" => (pc' = "send" \/ (pc' = "cleanup" /\ words' = words))

\* C9: after a failed say() the iteration is on its way through the clean-up,
\* has called say() once only, and ends having run evict and retain once.
SendFailureStillEvicts ==
    /\ [](iter.failed =>
            /\ iter.sends = 1
            /\ pc \in {"cleanup", "lockw", "evict", "retain", "unlock", "loop"}
            /\ (pc = "loop" => iter.evictions = 1))
    /\ [][SayStep]_vars

\* an iteration whose say() failed is over and has run its clean-up
FailedIterationOver == IterationOver /\ iter.failed /\ iter.evictions = 1

\* C10: a selection over an empty WordMap gives the default word (None when
\* none is configured); over a non-empty WordMap it gives one of its keys.
SelectionResult ==
    pc = "emit" =>
        IF DOMAIN sel.lens = {}
        THEN maybe_word = options.default_word
        ELSE maybe_word \in DOMAIN sel.lens

\* the WordMap was empty and the configured default word was selected
DefaultSelected ==
    /\ pc = "emit"
    /\ DOMAIN sel.lens = {}
    /\ options.default_word # None
    /\ maybe_word = options.default_word

\* a selection over a non-empty WordMap has just been made
SelectedFromMap == pc = "emit" /\ DOMAIN sel.lens # {}

\* C11: the word selected from a non-empty WordMap has, with max_boost added,
\* at least as many instances as every other word; with max_boost = 0 it is
\* a word with the most instances.
WithinBoostOfLongest ==
    SelectedFromMap =>
        /\ \A v \in DOMAIN sel.lens :
              sel.lens[maybe_word] + options.max_boost >= sel.lens[v]
        /\ options.max_boost = 0 =>
              \A v \in DOMAIN sel.lens : sel.lens[maybe_word] >= sel.lens[v]

\* without boost, a word said three times wins over a word said once
ThreeBeatsOne ==
    /\ SelectedFromMap
    /\ options.max_boost = 0
    /\ \E a, b \in DOMAIN sel.lens :
          sel.lens[a] = 3 /\ sel.lens[b] = 1 /\ maybe_word = a

\* C18: a selection calls the key closure once per entry, each call with its
\* own draw in 0..max_boost, and returns a word whose score len + boost is
\* the largest of the scores so computed.
ScoredOncePerEntry ==
    SelectedFromMap =>
        /\ sel.calls = Cardinality(DOMAIN sel.lens)
        /\ Len(sel.draws) = sel.calls
        /\ \A w \in DOMAIN sel.lens : sel.boosts[w] \in 0..options.max_boost
        /\ \A v \in DOMAIN sel.lens :
              sel.lens[maybe_word] + sel.boosts[maybe_word]
                  >= sel.lens[v] + sel.boosts[v]

\* two entries drew different boosts and the shorter one won by its boost
BoostDecided ==
    /\ SelectedFromMap
    /\ sel.calls = 2
    /\ \E v \in DOMAIN sel.lens :
          /\ sel.boosts[v] # sel.boosts[maybe_word]
          /\ sel.lens[v] > sel.lens[maybe_word]

\* C19: the selected word is fixed by the contents of the WordMap and the
\* sequence of boost draws: whatever order the entries are visited in, the
\* same word comes out.
TieBreakDeterministic ==
    SelectedFromMap =>
        \A o \in Orders(DOMAIN sel.lens) :
            max_by_key(o, keyed(o, sel.lens, sel.draws).key) = maybe_word

\* handler h passes the statement that sets the recent channel
SetsChannel(h) == hpc[h] = "channel" /\ hpc'[h] = "lock"

\* what a step may do to the recent channel
DestinationStep ==
    /\ \A h \in Handlers : SetsChannel(h) => recent_channel' = hmsg[h].channel_id
    /\ (\A h \in Handlers : ~SetsChannel(h)) => recent_channel' = recent_channel
    /\ recent_channel # None => recent_channel' # None

\* C12: the recent channel is None until a message of somebody else has been
\* handled; every such message, with or without a valid word, sets it to its
\* channel; nothing else changes it, and nothing sets it back to None.
DestinationFollowsEvents ==
    /\ [](recent_channel = None =>
            words = EmptyMap /\ \A h \in Handlers : hpc[h] # "lock")
    /\ [][DestinationStep]_vars

\* the only message so far held no valid word and its channel is remembered
DestinationFromWordlessEvent ==
    /\ nEvents = 1
    /\ recent_channel \in Channels
    /\ \E h \in Handlers : hpc[h] = "lock" /\ hwords[h] = <<>>

\* --interval-low is larger than --interval-high
InvertedInterval == options.interval.low > options.interval.high

\* C13: with inverted interval bounds nothing is ever recorded into the
\* WordMap and the loop never runs a step of an iteration.
InvertedIntervalAborts ==
    InvertedInterval =>
        /\ words = EmptyMap
        /\ pc \in {"loop", "panicked"}

(***************************************************************************)
(* Specification SpecRec: messages recorded into one WordMap, one after    *)
(* the other, and clean-up passes over it                                  *)
(***************************************************************************)
\* instances the history holds
RawTotal == SumOver([r \in RawWords |-> Total(rmRaw[r])], RawWords)

\* Reader::message from word_iterator to the end of the for loop, for a
\* message with this content and timestamp
RecMessage ==
    /\ \E content \in Contents, time \in Times :
          /\ RawTotal + Len(content) <= MaxLen
          /\ rm' = record_all(rm, word_iterator(content), time)
          /\ rmRaw' = [r \in RawWords |->
                         [rmRaw[r] EXCEPT ![time] = @ + Occurrences(content, r)]]
    /\ rmOp' = "message"
    /\ UNCHANGED <<botVars, vecVars>>

\* the clean-up of the loop with some older_than
RecCleanup ==
    /\ \E cutoff \in Times :
          /\ rm' = retain_nonempty(evict(rm, cutoff))
          /\ rmRaw' = [r \in RawWords |-> [t \in Times |->
                          IF t <= cutoff THEN 0 ELSE rmRaw[r][t]]]
    /\ rmOp' = "cleanup"
    /\ UNCHANGED <<botVars, vecVars>>

RecNext == RecMessage \/ RecCleanup

InitRec == RecIdle /\ BotIdle /\ VecIdle

SpecRec == InitRec /\ [][RecNext]_vars

\* the raw words that are observations of token: valid words equal to it up
\* to case
SpellingsOf(token) ==
    IF token = "ciao" THEN {"Ciao", "ciao"}
    ELSE IF token = "pino" THEN {"pino"}
    ELSE {}

\* observations of token at instant t that no clean-up has reached
Observed(token, t) ==
    SumOver([r \in RawWords |-> rmRaw[r][t]], SpellingsOf(token))

\* C14: the WordMap holds one entry per lower-cased valid word observed and
\* not yet evicted, and that entry holds one timestamp per such observation,
\* whatever the case it was written in; nothing else is a key.
OneEntryPerToken ==
    /\ DOMAIN rm =
          {token \in {"ciao", "pino"} : \E t \in Times : Observed(token, t) > 0}
    /\ \A token \in DOMAIN rm : \A t \in Times :
          CountEq(rm[token], t) = Observed(token, t)
    /\ \A token \in DOMAIN rm : IsSorted(rm[token])

\* "Ciao" and "ciao" were recorded once each: one entry, two timestamps
CiaoTwice ==
    /\ Total(rmRaw["Ciao"]) = 1
    /\ Total(rmRaw["ciao"]) = 1
    /\ DOMAIN rm = {"ciao"}
    /\ Len(rm["ciao"]) = 2

(***************************************************************************)
(* SortedVec::remove_le and SortedVec::position, under SpecVec             *)
(***************************************************************************)
\* after is before without a prefix: every element dropped is <= key, every
\* element kept is > key and stands where it stood relative to the others
KeepsGreater(before, after, key) ==
    \E n \in 0..Len(before) :
        /\ after = SubSeq(before, n + 1, Len(before))
        /\ \A i \in 1..n : before[i] <= key
        /\ \A i \in (n + 1)..Len(before) : before[i] > key

RemoveLeStep ==
    (svOp = "remove_le" /\ svOp' = "remove_le" /\ svKey' = svKey) => sv' = sv

\* C15: remove_le(key) leaves exactly the elements > key in their previous
\* order, and a second remove_le with the same key changes nothing.
RemoveLeExactIdempotent ==
    /\ [](svOp = "remove_le" => KeepsGreater(svPrev, sv, svKey))
    /\ [][RemoveLeStep]_vars

\* a remove_le that dropped some elements and kept others
RemovedSomeKeptSome ==
    /\ svOp = "remove_le"
    /\ Len(sv) >= 1
    /\ Len(svPrev) >= Len(sv) + 2
    /\ svPrev[2] = svKey

\* indices, counted from 0, of the elements equal to key
IndicesOf(vec, key) == {i \in 0..(Len(vec) - 1) : vec[i + 1] = key}

\* C16: position(key) is the index of the last element equal to key when
\* there is one, and none otherwise.
PositionOfLast ==
    svOp = "position" =>
        IF IndicesOf(sv, svKey) = {}
        THEN svRet = <<>>
        ELSE /\ Len(svRet) = 1
             /\ svRet[1] \in IndicesOf(sv, svKey)
             /\ \A i \in IndicesOf(sv, svKey) : i <= svRet[1]

\* position found the last of several equal elements, with a greater one
\* after it
PositionAmongDuplicates ==
    /\ svOp = "position"
    /\ Cardinality(IndicesOf(sv, svKey)) >= 2
    /\ svRet = Some(Len(sv) - 2)

(***************************************************************************)
(* The loop under fair scheduling                                          *)
(***************************************************************************)
\* tokio keeps polling the spawned task and the handlers of the events it
\* received: a step of either that stays possible is taken in the end; a
\* say in flight returns (SayReturns is the only step at "send"). Whether a
\* message arrives is left to the outside.
HandlerRun == \E h \in Handlers : SetChannel(h) \/ Record(h)

FairSpec == Spec /\ WF_vars(CycleNext) /\ WF_vars(HandlerRun)

\* C17: under fair scheduling the loop selects again and again, whatever
\* the configuration and however the messages interleave.
SelectsInfinitelyOften == []<>(pc = "emit")

(***************************************************************************)
(* Specification SpecLocks: the same program with every guard of the two   *)
(* std RwLocks taken and dropped in steps of their own. The history        *)
(* variables of Spec are not kept here.                                    *)
(***************************************************************************)
\* the messages of SpecLocks: one without a word and one with a word, all
\* in one channel
LkContents == {<<>>, <<"ciao">>}
LkChannels == {"c1"}

\* Deliver for these messages
LkDeliver(h) ==
    /\ hpc[h] = "idle"
    /\ nEvents < MaxEvents
    /\ \E content \in LkContents, channel \in LkChannels :
          /\ hmsg' = [hmsg EXCEPT ![h] = [timestamp |-> now,
                                          channel_id |-> channel]]
          /\ hwords' = [hwords EXCEPT ![h] = word_iterator(content)]
    /\ hpc' = [hpc EXCEPT ![h] = "channel"]
    /\ nEvents' = nEvents + 1
    /\ UNCHANGED <<vecVars, recVars, options, words, words_lock, dest_lock,
                   recent_channel, now, cycleVars, unseen, lost>>

\* recent_channel_lock.write(): granted when nobody holds a guard
LkDestWrite(h) ==
    /\ hpc[h] = "channel"
    /\ dest_lock = Unlocked
    /\ dest_lock' = ByHandler(h)
    /\ hpc' = [hpc EXCEPT ![h] = "replace"]
    /\ UNCHANGED <<vecVars, recVars, options, words, words_lock, recent_channel,
                   now, nEvents, hmsg, hwords, cycleVars, unseen, lost>>

\* a handler whose guard of RecentChannel lives until message returns
LkReplace_keep(h) ==
    /\ hpc[h] = "replace"
    /\ recent_channel' = hmsg[h].channel_id
    /\ hmsg' = [hmsg EXCEPT ![h].channel_id = None]
    /\ hpc' = [hpc EXCEPT ![h] = "lock"]
    /\ UNCHANGED <<vecVars, recVars, options, words, words_lock, dest_lock, now,
                   nEvents, hwords, cycleVars, unseen, lost>>

\* .replace(msg.channel_id); the guard is a temporary of the statement and
\* is dropped at its end
LkReplace(h) ==
    /\ hpc[h] = "replace"
    /\ recent_channel' = hmsg[h].channel_id
    /\ dest_lock' = Unlocked
    /\ hmsg' = [hmsg EXCEPT ![h].channel_id = None]
    /\ hpc' = [hpc EXCEPT ![h] = "lock"]
    /\ UNCHANGED <<vecVars, recVars, options, words, words_lock, now, nEvents,
                   hwords, cycleVars, unseen, lost>>

\* message_map_lock.write(): granted when nobody holds a guard
LkMapWrite(h) ==
    /\ hpc[h] = "lock"
    /\ words_lock = Unlocked
    /\ words_lock' = ByHandler(h)
    /\ hpc' = [hpc EXCEPT ![h] = "record"]
    /\ UNCHANGED <<vecVars, recVars, options, words, dest_lock, recent_channel,
                   now, nEvents, hmsg, hwords, cycleVars, unseen, lost>>

\* the for loop, then message returns and drops message_map
LkRecord(h) ==
    /\ hpc[h] = "record"
    /\ words' = record_all(words, hwords[h], hmsg[h].timestamp)
    /\ words_lock' = Unlocked
    /\ hpc' = [hpc EXCEPT ![h] = "idle"]
    /\ hmsg' = [hmsg EXCEPT ![h] = NoMsg]
    /\ hwords' = [hwords EXCEPT ![h] = <<>>]
    /\ UNCHANGED <<vecVars, recVars, options, dest_lock, recent_channel, now,
                   nEvents, cycleVars, unseen, lost>>

\* data_read.get::<MessageMap>().unwrap().read(): granted when no writer
\* holds the lock; the loop is the only reader
LkWordsRead ==
    /\ pc = "select"
    /\ words_lock = Unlocked
    /\ words_lock' = ByLoopRead
    /\ pc' = "selecting"
    /\ UNCHANGED <<vecVars, recVars, options, words, dest_lock, recent_channel,
                   now, nEvents, handlerVars, maybe_word, locked_channel,
                   older_than, sel, iter, send_call, seen_now, pre_pass,
                   unseen, lost>>

\* the selection under the read guard, dropped at the end of the block
LkSelect ==
    /\ pc = "selecting"
    /\ \E order \in Orders(DOMAIN words),
          draws \in [1..Cardinality(DOMAIN words) -> 0..options.max_boost] :
          LET lens == [w \in DOMAIN words |-> len(words[w])]
          IN maybe_word' = or(max_by_key(order, keyed(order, lens, draws).key),
                              options.default_word)
    /\ words_lock' = Unlocked
    /\ pc' = "emit"
    /\ UNCHANGED <<vecVars, recVars, options, words, dest_lock, recent_channel,
                   now, nEvents, handlerVars, locked_channel, older_than, sel,
                   iter, send_call, seen_now, pre_pass, unseen, lost>>

\* recent_channel.read() inside "if let Some(word)"
LkDestRead ==
    /\ pc = "emit"
    /\ maybe_word # None
    /\ dest_lock = Unlocked
    /\ dest_lock' = ByLoopRead
    /\ pc' = "readch"
    /\ UNCHANGED <<vecVars, recVars, options, words, words_lock, recent_channel,
                   now, nEvents, handlerVars, maybe_word, locked_channel,
                   older_than, sel, iter, send_call, seen_now, pre_pass,
                   unseen, lost>>

\* locked_channel = *guard: the ChannelId is copied and the guard, a
\* temporary of the statement, is dropped; then "if let Some(channel)"
LkReadChannel ==
    /\ pc = "readch"
    /\ locked_channel' = recent_channel
    /\ dest_lock' = Unlocked
    /\ pc' = IF recent_channel # None THEN "send" ELSE "cleanup"
    /\ UNCHANGED <<vecVars, recVars, options, words, words_lock, recent_channel,
                   now, nEvents, handlerVars, maybe_word, older_than, sel,
                   iter, send_call, seen_now, pre_pass, unseen, lost>>

\* what a handler does once it has its message
LkHandlerRun(h) ==
    \/ LkDestWrite(h)
    \/ LkReplace(h)
    \/ LkMapWrite(h)
    \/ LkRecord(h)

LkHandlerNext ==
    \E h \in Handlers :
        \/ DeliverOwn(h)
        \/ LkDeliver(h)
        \/ LkHandlerRun(h)

LkCycleNext ==
    \/ LoopTop
    \/ Wake
    \/ LkWordsRead
    \/ LkSelect
    \/ EmitNone
    \/ LkDestRead
    \/ LkReadChannel
    \/ SayReturns
    \/ Cutoff
    \/ LockWords
    \/ Evict
    \/ Retain
    \/ UnlockWords

LkNext == Tick \/ LkHandlerNext \/ LkCycleNext

SpecLocks == Init /\ [][LkNext]_vars

\* the scheduler keeps running the spawned task and every handler that has
\* a message, and a thread blocked on a lock that is released again and
\* again gets it in the end
FairLocks ==
    /\ SpecLocks
    /\ SF_vars(LkCycleNext)
    /\ \A h \in Handlers : SF_vars(LkHandlerRun(h))

\* the processes that take the locks
Procs == {ByHandler(h) : h \in Handlers} \cup {<<"loop">>}

HoldsStore(p) ==
    IF p = <<"loop">> THEN words_lock \in {ByLoop, ByLoopRead}
    ELSE words_lock = p

HoldsDestination(p) ==
    IF p = <<"loop">> THEN dest_lock = ByLoopRead
    ELSE dest_lock = p

\* p has asked for a guard and does not have it yet
WantsStore(p) ==
    IF p = <<"loop">> THEN pc \in {"select", "lockw"}
    ELSE hpc[p[2]] = "lock"

WantsDestination(p) ==
    IF p = <<"loop">> THEN pc = "emit" /\ maybe_word # None
    ELSE hpc[p[2]] = "channel"

\* p is blocked on a lock, on the sleep or on the send
Waits(p) ==
    \/ WantsStore(p)
    \/ WantsDestination(p)
    \/ p = <<"loop">> /\ pc \in {"sleep", "send"}

LockSafety ==
    \A p \in Procs :
        /\ ~(HoldsStore(p) /\ HoldsDestination(p))
        /\ (HoldsStore(p) \/ HoldsDestination(p)) => ~Waits(p)

\* C20: no process holds the guards of both locks at once, none holds a
\* guard while it waits on the sleep, on the send or on a lock (so no cycle
\* of waiting can form), and under fair scheduling every guard asked for is
\* obtained.
LockDiscipline ==
    /\ []LockSafety
    /\ \A p \in Procs :
          /\ WantsStore(p) ~> HoldsStore(p)
          /\ WantsDestination(p) ~> HoldsDestination(p)

\* a handler holds the WordMap while the loop, which holds the RecentChannel,
\* is not waiting for anything, and the other handler waits for both in turn
ContendedLocks ==
    /\ \E h \in Handlers : words_lock = ByHandler(h)
    /\ dest_lock = ByLoopRead
    /\ \E h \in Handlers : hpc[h] = "channel"

====
